---------------------------- MODULE Spec2Model ----------------------------
(***************************************************************************)
(* T2S_RAG: the Table Resolver graph of agents/schema_retriever.py and the *)
(* Generation/Verification Loop of agents/sql_query_generator.py and       *)
(* agents/data_operator.py, as one state machine over the AgentState       *)
(* dictionary.  `state' is that dictionary; `pc' is the node the graph     *)
(* driver runs next.  The capabilities (Intent Analyzer, ranker, human,    *)
(* SQL Generator, SQL Verifier, store) are the environment: each action    *)
(* draws their answer from a small set.  AlterSpec runs                    *)
(* update_db_and_vector_store of tools/db_utils.py for two concurrent      *)
(* callers, call by call; RankerSpec runs                                  *)
(* search_relevant_tables_by_content of tools/vector_search.py, query by   *)
(* query.                                                                  *)
(* CallSpec runs the capability calls of utils/llm_client.py under their   *)
(* Retry decorators, attempt by attempt.                                   *)
(***************************************************************************)
EXTENDS Naturals, Sequences, FiniteSets, TLC

VARIABLES
    state,      \* the AgentState dictionary threaded through the nodes
    pc,         \* the node that runs next ("END": resolver graph finished)
    tick,       \* parity of the number of node executions (supersteps)
    hist,       \* history of the run: what was called, answered, observed
    db,         \* the backing store: per table, how often it has been altered
    index,      \* the persisted Schema Index collection (PersistentClient)
    ephemeral,  \* the in-memory collection of chromadb's Client()
    procs,      \* concurrent callers of update_db_and_vector_store
    ranker,     \* a call of search_relevant_tables_by_content in progress
    call        \* a call of a capability of utils/llm_client.py in progress

vars == <<state, pc, tick, hist, db, index, ephemeral, procs, ranker, call>>

-----------------------------------------------------------------------------
(* Bounds of the model *)

\* messages keeps the HumanMessage and the latest MaxMsgs-1 SystemMessages
MaxMsgs == 3
\* the call counters of hist saturate at MaxCount
MaxCount == 2

\* the store accepts at most MaxAlters alterations of one table
MaxAlters == 2

(* Program constants *)

MaxRetries == 2
TokenIncrement == 500
InitialBudget == 1000
\* distances and confidences are held in hundredths: 1.0 is Unit
Unit == 100
\* candidates at or below 0.2 are dropped
Threshold == 20

-----------------------------------------------------------------------------
(* Values *)

\* A table reference is the comma-separated string, held as its list of
\* names: "a,b" is <<"a","b">>, "" is <<"">>.  Python's None is <<>>.
None == <<>>
EmptyStr == <<"">>
UNCERTAIN == <<"UNCERTAIN">>

Truthy(s) == s # None /\ s # EmptyStr

\* tables that have a document in the Schema Index
IndexTables == {"Orders", "Users"}

\* the tables of the backing store, in the order of sqlite_master
DbTables == <<"Orders", "Users">>

AnalyzerTables == {UNCERTAIN, <<"Orders">>, <<"Ghost">>, <<"Orders", "Users">>}
EntityLists == {<<>>, <<"gpa">>}
\* what a human can type at "Please provide the correct table name: "
ManualEntries == {EmptyStr, <<"Orders">>, <<"Ghost">>}

EmptySchema == [docs |-> <<>>, info |-> FALSE]
SchemaTruthy(s) == s.docs # <<>> \/ s.info

Bump(n) == IF n < MaxCount THEN n + 1 ELSE n

\* messages.append(m), keeping the first message and the latest ones
AppendMsg(ms, m) ==
    IF Len(ms) < MaxMsgs THEN Append(ms, m)
    ELSE Append(<<ms[1]>> \o SubSeq(ms, 3, Len(ms)), m)


\* state["messages"][-1].content
last_message(s) == s.messages[Len(s.messages)]

-----------------------------------------------------------------------------
(* Outcomes of the collaborators *)

\* the ALTER TABLE statement the analyzer writes for the table reference it
\* detected, held as the name of the table the statement alters
alter_statement(t) == t[1]

\* what the Gemini call of get_table_name_and_alter can come back with: a
\* JSON object, text with braces that is not JSON (with the quoted strings
\* found in it), text without any JSON object, or an API error
AnalyzerResponses ==
    { [kind |-> "json", table_name |-> t, is_alter |-> a.is_alter,
       alter_command |-> IF a.with_command THEN alter_statement(t) ELSE "",
       sql_command_type |-> a.sql_command_type,
       extracted_entities |-> e] :
        t \in AnalyzerTables,
        a \in { [is_alter |-> FALSE, with_command |-> FALSE,
                 sql_command_type |-> "SELECT"],
                [is_alter |-> TRUE,  with_command |-> TRUE,
                 sql_command_type |-> "ALTER"],
                [is_alter |-> TRUE,  with_command |-> FALSE,
                 sql_command_type |-> "ALTER"] },
        e \in EntityLists }
    \cup
    { [kind |-> k, table_name |-> None, is_alter |-> FALSE,
       alter_command |-> "", sql_command_type |-> "",
       extracted_entities |-> e] :
        k \in {"broken_json"}, e \in EntityLists }
    \cup
    { [kind |-> k, table_name |-> None, is_alter |-> FALSE,
       alter_command |-> "", sql_command_type |-> "",
       extracted_entities |-> <<>>] : k \in {"no_json", "api_error"} }

\* the result get_table_name_and_alter leaves thought_node with
AnalysisRaised(kind) ==
    [ok |-> FALSE, response |-> kind, table_name |-> UNCERTAIN,
     is_alter |-> FALSE, alter_command |-> "", sql_command_type |-> "SELECT",
     extracted_entities |-> <<>>]

\* get_table_name_and_alter: a result dictionary, or an exception (ok = FALSE)
get_table_name_and_alter(response) ==
    CASE response.kind = "json" ->
           [ok |-> TRUE, response |-> "json",
            table_name |-> response.table_name,
            is_alter |-> response.is_alter,
            alter_command |-> response.alter_command,
            sql_command_type |-> response.sql_command_type,
            extracted_entities |-> response.extracted_entities]
      [] response.kind = "broken_json" ->
           [ok |-> TRUE, response |-> "broken_json",
            table_name |-> UNCERTAIN, is_alter |-> FALSE,
            alter_command |-> "", sql_command_type |-> "SELECT",
            extracted_entities |-> response.extracted_entities]
      [] OTHER -> AnalysisRaised(response.kind)

\* what thought_node gets: the analysis, or an exception of the analysis or
\* of init_gemini_client before it
AnalyzerOutcomes ==
    { get_table_name_and_alter(response) : response \in AnalyzerResponses }
    \cup { AnalysisRaised("config_error") }

Candidate(t, c) == [table_name |-> t, confidence_score |-> c]

\* search_relevant_tables_by_content: a ranked candidate list, or an exception
\* (raised before its try block); caught tells that the function caught a
\* failure of a query or of get_collection on the way
RankerOutcomes ==
    { [ok |-> TRUE, caught |-> FALSE, candidates |-> cs] :
        cs \in { <<>>,
                 <<Candidate(<<"Orders">>, 90)>>,
                 <<Candidate(<<"Users">>, 80), Candidate(<<"Orders">>, 60)>> } }
    \cup { [ok |-> TRUE, caught |-> TRUE, candidates |-> cs] :
             cs \in { <<>>, <<Candidate(<<"Orders">>, 90)>> } }
    \cup { [ok |-> FALSE, caught |-> FALSE, candidates |-> <<>>] }

\* what alter_node's collaborators do: load_config returns or raises, the
\* store commits or rejects the statement, the refresh of the collection runs
\* through or raises before or after its delete
AlterOutcomes ==
    { [config |-> FALSE, commit |-> FALSE, refresh |-> "ok"],
      [config |-> TRUE,  commit |-> FALSE, refresh |-> "ok"],
      [config |-> TRUE,  commit |-> TRUE,  refresh |-> "ok"],
      [config |-> TRUE,  commit |-> TRUE,  refresh |-> "raise_before"],
      [config |-> TRUE,  commit |-> TRUE,  refresh |-> "raise_after_delete"] }

\* chromadb behind search_table_schema answers, or raises
FetchOutcomes == {TRUE, FALSE}

-----------------------------------------------------------------------------
(* tools/human_in_loop.py *)

human_clarification == ManualEntries

\* every value the prompt can return for the candidates shown: None on
\* "0. Cancel", a listed table, or the manual entry
human_table_confirmation(candidate_tables) ==
    IF candidate_tables = <<>> THEN human_clarification
    ELSE {None}
         \cup { candidate_tables[i].table_name : i \in 1..Len(candidate_tables) }
         \cup human_clarification

-----------------------------------------------------------------------------
(* tools/vector_search.py *)

\* search_table_schema that looks up the first name of the list only
search_table_schema_first_only(table_name, collection) ==
    LET results(name) == {d \in collection : d.table_name = name}
    IN  IF table_name = <<>> THEN None
        ELSE <<[table |-> table_name[1],
                found |-> results(table_name[1]) # {},
                version |-> 0]>>

\* one document per name of the comma list, in order, queried from the
\* collection with where = {table_name: name}, n_results = 1; a name without
\* a document yields the text "No schema found for table: <name>"
search_table_schema(table_name, collection) ==
    LET results(name) == {d \in collection : d.table_name = name}
        schemas == [i \in 1..Len(table_name) |->
                       IF results(table_name[i]) # {}
                       THEN [table |-> table_name[i], found |-> TRUE,
                             version |->
                                (CHOOSE d \in results(table_name[i]) : TRUE).text.version]
                       ELSE [table |-> table_name[i], found |-> FALSE,
                             version |-> 0]]
    IN  IF schemas # <<>> THEN schemas ELSE None

-----------------------------------------------------------------------------
(* tools/vector_search.py: search_relevant_tables_by_content *)

\* the distances collection.query can report, in hundredths
Distances == {0, 10, 40, 80, 120}
\* the values of top_k (and of n_results) the function is called with
TopKs == {1, 2}
\* the entity lists the function is called with
SearchEntities == {<<>>, <<"gpa">>}
NlText == "nl_text"

RECURSIVE entity_queries(_)
\* "column <entity>" and "field <entity>" for every entity, in order
entity_queries(entities) ==
    IF entities = <<>> THEN <<>>
    ELSE <<[kind |-> "column", entity |-> Head(entities)],
           [kind |-> "field", entity |-> Head(entities)]>>
         \o entity_queries(Tail(entities))

search_queries(entities) ==
    entity_queries(entities)
    \o (IF Len(entities) > 1
        THEN <<[kind |-> "table with", entity |-> entities]>> ELSE <<>>)
    \o <<[kind |-> "nl_text", entity |-> NlText]>>

\* what one collection.query can return for n_results = top_k: at most top_k
\* documents of different tables, each with its distance; or it raises
QueryResults(top_k) ==
    LET tables == {DbTables[i] : i \in 1..Len(DbTables)}
        one == { <<[table_name |-> t, distance |-> d]>> :
                    t \in tables, d \in Distances }
        pairs == {p \in tables \X tables : p[1] # p[2]}
        two == { <<[table_name |-> p[1], distance |-> d1],
                   [table_name |-> p[2], distance |-> d2]>> :
                    p \in pairs, d1 \in Distances, d2 \in Distances }
    IN  { [ok |-> FALSE, hits |-> <<>>] }
        \cup { [ok |-> TRUE, hits |-> h] :
                 h \in {<<>>} \cup one \cup (IF top_k > 1 THEN two ELSE {}) }

\* confidence = max(0, 1 - distance)
confidence(distance) == IF Unit - distance > 0 THEN Unit - distance ELSE 0

\* a merge that keeps the confidence a table was first seen with
merge_hit_keep_first(candidate_tables, hit, query) ==
    IF \E i \in 1..Len(candidate_tables) :
           candidate_tables[i].table_name = hit.table_name
    THEN candidate_tables
    ELSE Append(candidate_tables,
                [table_name |-> hit.table_name,
                 confidence_score |-> confidence(hit.distance),
                 reason |-> [text |-> "Contains content matching", query |-> query]])

\* the body of the loop over the documents of one query result
merge_hit(candidate_tables, hit, query) ==
    LET existing == {i \in 1..Len(candidate_tables) :
                        candidate_tables[i].table_name = hit.table_name}
        first == CHOOSE i \in existing : \A j \in existing : i <= j
    IN  IF existing # {}
        THEN IF confidence(hit.distance) > candidate_tables[first].confidence_score
             THEN [candidate_tables EXCEPT
                      ![first].confidence_score = confidence(hit.distance),
                      ![first].reason = [text |-> "Found relevant content for query",
                                         query |-> query]]
             ELSE candidate_tables
        ELSE Append(candidate_tables,
                    [table_name |-> hit.table_name,
                     confidence_score |-> confidence(hit.distance),
                     reason |-> [text |-> "Contains content matching",
                                 query |-> query]])

RECURSIVE merge_hits(_, _, _)
merge_hits(candidate_tables, hits, query) ==
    IF hits = <<>> THEN candidate_tables
    ELSE merge_hits(merge_hit(candidate_tables, Head(hits), query),
                    Tail(hits), query)

\* a sort that leaves the list as it is
sorted_by_confidence_unsorted(candidate_tables) == candidate_tables

RECURSIVE sorted_by_confidence(_)
\* sorted(key = confidence_score, reverse = True): descending, entries of
\* equal confidence in their original order
sorted_by_confidence(candidate_tables) ==
    IF candidate_tables = <<>> THEN <<>>
    ELSE LET n == Len(candidate_tables)
             last == candidate_tables[n]
             front == sorted_by_confidence(SubSeq(candidate_tables, 1, n - 1))
             keep == {i \in 1..Len(front) :
                         front[i].confidence_score >= last.confidence_score}
         IN  SubSeq(front, 1, Cardinality(keep)) \o <<last>>
             \o SubSeq(front, Cardinality(keep) + 1, Len(front))

\* a filter that lets the threshold itself through
above_threshold_inclusive(t) == t.confidence_score >= Threshold

above_threshold(t) == t.confidence_score > Threshold

\* the tail of the function: sort, drop the low confidences, cut at top_k
ranked_candidates(candidate_tables, top_k) ==
    LET filtered == SelectSeq(sorted_by_confidence(candidate_tables),
                              above_threshold)
    IN  SubSeq(filtered, 1, IF Len(filtered) < top_k THEN Len(filtered) ELSE top_k)

NoSearch == [pc |-> "idle", top_k |-> 0, entities |-> <<>>, issued |-> 0,
             hits |-> <<>>, candidate_tables |-> <<>>, returned |-> <<>>]

-----------------------------------------------------------------------------
(* tools/db_utils.py *)

\* schema_content of a table: "Table: <name>" and its columns, which are a
\* function of how often the table has been altered
SchemaText(tbl_name, version) == [table |-> tbl_name, version |-> version]

get_table_schemas(store, table_name) ==
    LET wanted(tbl_name) == ~Truthy(table_name) \/ table_name = <<tbl_name>>
        tables == SelectSeq(DbTables, wanted)
    IN  [i \in 1..Len(tables) |->
            [table_name |-> tables[i],
             schema |-> SchemaText(tables[i], store[tables[i]])]]

\* a get that ignores its where clause
collection_get_all(collection, table_name) == {d.id : d \in collection}

\* collection.get(where={'table_name': table_name})['ids']
collection_get(collection, table_name) ==
    {d.id : d \in {e \in collection : table_name = <<e.table_name>>}}

collection_delete(collection, ids) == {d \in collection : d.id \notin ids}

\* the documents of one batch, with ids schema_<table>_<position in batch>
new_documents(schemas) ==
    { [id |-> <<schemas[j].table_name, j - 1>>,
       table_name |-> schemas[j].table_name,
       text |-> schemas[j].schema] : j \in 1..Len(schemas) }

\* collection.add: a document whose id the collection holds already is not
\* stored
collection_add(collection, documents) ==
    collection \cup {d \in documents : \A e \in collection : e.id # d.id}

\* update_vector_store on the collection of Client(); refresh tells whether
\* the chromadb calls run through or where they raise
update_vector_store(store, collection, table_name, refresh) ==
    IF refresh = "raise_before" THEN collection
    ELSE LET existing_ids == collection_get(collection, table_name)
             cleared == IF Truthy(table_name) /\ existing_ids # {}
                        THEN collection_delete(collection, existing_ids)
                        ELSE collection
         IN  IF refresh = "raise_after_delete" THEN cleared
             ELSE collection_add(cleared,
                                 new_documents(get_table_schemas(store, table_name)))

\* sqlite commits the statement when it names a table of the store (and the
\* bound allows), else raises sqlite3.Error; conn.close() follows the commit
\* inside the try block, the handler of sqlite3.Error returns False
execute_alter_command(store, alter_command, commit) ==
    IF commit /\ alter_command \in DOMAIN store /\ store[alter_command] < MaxAlters
    THEN [success |-> TRUE, closed |-> TRUE,
          db |-> [store EXCEPT ![alter_command] = @ + 1]]
    ELSE [success |-> FALSE, closed |-> FALSE, db |-> store]

\* update_db_and_vector_store that refreshes whatever the commit did
update_db_and_vector_store_always(store, collection, alter_command, table_name, o) ==
    LET e == execute_alter_command(store, alter_command, o.commit)
    IN  [db |-> e.db,
         collection |-> update_vector_store(e.db, collection, table_name, o.refresh),
         committed |-> e.success,
         closed |-> e.closed,
         result |-> IF ~e.success THEN "Failed to execute"
                    ELSE IF o.refresh = "ok" THEN "Successfully executed"
                    ELSE "raise"]

update_db_and_vector_store(store, collection, alter_command, table_name, o) ==
    LET e == execute_alter_command(store, alter_command, o.commit)
    IN  IF e.success
        THEN [db |-> e.db,
              collection |-> update_vector_store(e.db, collection, table_name, o.refresh),
              committed |-> TRUE,
              closed |-> e.closed,
              result |-> IF o.refresh = "ok" THEN "Successfully executed"
                         ELSE "raise"]
        ELSE [db |-> store, collection |-> collection, committed |-> FALSE,
              closed |-> e.closed,
              result |-> "Failed to execute"]

\* the stores as the indexing run left them: no table altered, one document
\* per table in the persisted collection, nothing in memory
initial_db == [t \in {DbTables[i] : i \in 1..Len(DbTables)} |-> 0]

initial_index == new_documents(get_table_schemas(initial_db, None))

-----------------------------------------------------------------------------
(* agents/schema_retriever.py: the nodes, each as a function of the state *)

\* thought_node with a detected table taken as confirmed
thought_node_unconfirmed(s, r) ==
    IF r.ok
    THEN [s EXCEPT !.table_name = r.table_name,
                   !.is_alter = r.is_alter,
                   !.alter_command = r.alter_command,
                   !.sql_command_type = r.sql_command_type,
                   !.extracted_entities = r.extracted_entities,
                   !.needs_clarification = (r.table_name = UNCERTAIN),
                   !.needs_table_confirmation = FALSE]
    ELSE [s EXCEPT !.needs_clarification = TRUE,
                   !.messages = AppendMsg(@, "Error processing query")]

thought_node(s, r) ==
    IF r.ok
    THEN [s EXCEPT !.table_name = r.table_name,
                   !.is_alter = r.is_alter,
                   !.alter_command = r.alter_command,
                   !.sql_command_type = r.sql_command_type,
                   !.extracted_entities = r.extracted_entities,
                   !.needs_clarification = (r.table_name = UNCERTAIN),
                   !.needs_table_confirmation = (r.table_name # UNCERTAIN)]
    ELSE [s EXCEPT !.needs_clarification = TRUE,
                   !.messages = AppendMsg(@, "Error processing query")]

\* whether semantic_search_node calls the ranker at all
search_guard(s) == s.needs_clarification /\ s.extracted_entities # <<>>

semantic_search_node(s, r) ==
    IF search_guard(s)
    THEN IF r.ok
         THEN IF r.candidates # <<>>
              THEN [s EXCEPT !.candidate_tables = r.candidates,
                             !.needs_clarification = FALSE,
                             !.needs_table_confirmation = TRUE]
              ELSE [s EXCEPT !.candidate_tables = r.candidates]
         ELSE [s EXCEPT !.messages =
                           AppendMsg(@, "Error searching for relevant tables")]
    ELSE s

\* the prompt human_table_confirmation_node puts to the human
confirmation_prompt(s) ==
    IF s.candidate_tables # <<>>
    THEN [kind |-> "confirmation", candidates |-> s.candidate_tables]
    ELSE IF s.table_name # UNCERTAIN
    THEN [kind |-> "confirmation",
          candidates |-> <<Candidate(s.table_name, 100)>>]
    ELSE [kind |-> "clarification", candidates |-> <<>>]

human_table_confirmation_node(s, confirmed_table) ==
    IF s.needs_table_confirmation
    THEN IF Truthy(confirmed_table)
         THEN [s EXCEPT !.table_name = confirmed_table,
                        !.needs_table_confirmation = FALSE,
                        !.needs_clarification = FALSE]
         ELSE [s EXCEPT !.needs_clarification = TRUE]
    ELSE s

human_in_loop_node(s, table_name) ==
    IF s.needs_clarification
    THEN [s EXCEPT !.table_name = table_name,
                   !.needs_clarification = FALSE]
    ELSE s

\* whether alter_node runs the alter statement
alter_guard(s) == s.is_alter /\ s.alter_command # ""

alter_node(s, result) ==
    IF alter_guard(s)
    THEN IF result = "raise"
         THEN [s EXCEPT !.messages = AppendMsg(@, "Failed to alter table")]
         ELSE [s EXCEPT !.messages = AppendMsg(@, result)]
    ELSE s

action_node(s, collection, ok) ==
    IF ok
    THEN LET schema == search_table_schema(s.table_name, collection)
         IN  IF schema # None
             THEN [s EXCEPT !.schema = [docs |-> schema, info |-> TRUE]]
             ELSE [s EXCEPT !.needs_clarification = TRUE,
                            !.messages = AppendMsg(@, "No schema found for table")]
    ELSE [s EXCEPT !.needs_clarification = TRUE,
                   !.messages = AppendMsg(@, "Error retrieving schema")]

\* should_continue without the test of extracted_entities
should_continue_always_search(s) ==
    IF s.needs_clarification THEN "semantic_search"
    ELSE IF s.needs_table_confirmation THEN "human_table_confirmation"
    ELSE IF s.is_alter THEN "alter"
    ELSE IF SchemaTruthy(s.schema) THEN "END"
    ELSE "action"

should_continue(s) ==
    IF s.needs_clarification
    THEN IF s.extracted_entities # <<>> THEN "semantic_search"
         ELSE "human_in_loop"
    ELSE IF s.needs_table_confirmation THEN "human_table_confirmation"
    ELSE IF s.is_alter THEN "alter"
    ELSE IF SchemaTruthy(s.schema) THEN "END"
    ELSE "action"

\* run_agent's initial_state; the loop's keys are absent there and read
\* through state.get(key, default)
initial_state ==
    [messages |-> <<"HumanMessage">>,
     table_name |-> EmptyStr,
     candidate_tables |-> <<>>,
     schema |-> EmptySchema,
     needs_clarification |-> FALSE,
     needs_table_confirmation |-> FALSE,
     is_alter |-> FALSE,
     alter_command |-> "",
     sql_command_type |-> "SELECT",
     extracted_entities |-> <<>>,
     generated_sql |-> "",
     query_results |-> "absent",
     final_sql |-> "",
     retry_count |-> 0,                      \* state.get("retry_count", 0)
     current_max_tokens |-> InitialBudget]   \* state.get("current_max_tokens", 1000)

ResolverNodes == {"thought", "semantic_search", "human_table_confirmation",
                  "human_in_loop", "alter", "action"}

-----------------------------------------------------------------------------
(* History of the run *)

NoAnalysis == [ok |-> FALSE, response |-> "none",
               table_name |-> None, is_alter |-> FALSE,
               alter_command |-> "", sql_command_type |-> "",
               extracted_entities |-> <<>>]

NoAlter == [result |-> "none", committed |-> FALSE, table_name |-> None]

initial_hist ==
    [analysis |-> NoAnalysis,      \* what the Intent Analyzer returned
     ranker_calls |-> 0,           \* calls of search_relevant_tables_by_content
     escalations |-> 0,            \* prompts put to the human
     last_prompt |-> "none",       \* kind of the latest prompt
     cancelled |-> FALSE,          \* the human chose "0. Cancel"
     ran_after_cancel |-> FALSE,   \* a node ran after a cancellation
     off_script |-> FALSE,         \* the human cancelled or named a table
                                   \* that is not indexed
     raised |-> FALSE,             \* a collaborator call raised
     empty_search |-> FALSE,       \* a search found nothing, no prompt since
     last_node |-> "none",         \* the node that ran last
     gen_calls |-> 0,              \* runs of sql_query_generator_node
     verdicts |-> <<>>,            \* statuses the verifier returned, in order
     adopted |-> "",               \* the statement the latest verdict adopts
     executed_sql |-> "",          \* the statement handed to the store
     exit |-> "none",              \* how data_operator_node returned last
     store |-> "none",             \* what the store did with the statement
     nl_text |-> "none",           \* what the latest node took as nl_text
     memo |-> {},                  \* the statements cached by the generator
     budgets |-> <<>>,             \* max_tokens of the generator's requests
     conn |-> "none",              \* the connection the latest node opened
     fetch |-> "none",             \* how the latest search_table_schema ended
     caught |-> FALSE,             \* the latest search caught a failure
     alter |-> NoAlter]            \* the latest run of the alter statement

InIndex(t) == t # None /\ \A i \in 1..Len(t) : t[i] \in IndexTables

\* common bookkeeping of every node execution
Ran(h, node) ==
    [h EXCEPT !.last_node = node,
              !.ran_after_cancel = @ \/ h.cancelled,
              !.nl_text = "none",
              !.conn = "none",
              !.fetch = "none",
              !.caught = FALSE]

Asked(h, kind, answer) ==
    [h EXCEPT !.escalations = Bump(@),
              !.last_prompt = kind,
              !.empty_search = FALSE,
              !.cancelled = @ \/ answer = None,
              !.off_script = @ \/ ~InIndex(answer)]

-----------------------------------------------------------------------------
(* The resolver graph of build_graph: one action per node, followed by the
   edge that leaves it *)

Thought ==
    /\ pc = "thought"
    /\ \E r \in AnalyzerOutcomes :
        /\ state' = thought_node(state, r)
        /\ hist' = [Ran(hist, "thought") EXCEPT
                        !.analysis = r,
                        !.nl_text = IF r.response = "config_error"
                                    THEN "none" ELSE last_message(state),
                        !.raised = @ \/ ~r.ok]
    /\ pc' = should_continue(state')
    /\ tick' = 1 - tick
    /\ UNCHANGED <<db, index, ephemeral, procs, ranker, call>>

SemanticSearch ==
    /\ pc = "semantic_search"
    /\ \E r \in RankerOutcomes :
        /\ state' = semantic_search_node(state, r)
        /\ hist' = IF search_guard(state)
                   THEN [Ran(hist, "semantic_search") EXCEPT
                            !.nl_text = last_message(state),
                            !.caught = r.caught,
                            !.ranker_calls = Bump(@),
                            !.empty_search = @ \/ (r.ok /\ r.candidates = <<>>),
                            !.raised = @ \/ ~r.ok]
                   ELSE Ran(hist, "semantic_search")
    /\ pc' = should_continue(state')
    /\ tick' = 1 - tick
    /\ UNCHANGED <<db, index, ephemeral, procs, ranker, call>>

HumanTableConfirmation ==
    /\ pc = "human_table_confirmation"
    /\ LET prompt == confirmation_prompt(state)
           answers == IF prompt.kind = "confirmation"
                      THEN human_table_confirmation(prompt.candidates)
                      ELSE human_clarification
       IN  IF state.needs_table_confirmation
           THEN \E a \in answers :
                   /\ state' = human_table_confirmation_node(state, a)
                   /\ hist' = [Asked(Ran(hist, "human_table_confirmation"),
                                     prompt.kind, a)
                                  EXCEPT !.nl_text = last_message(state)]
           ELSE /\ state' = state
                /\ hist' = Ran(hist, "human_table_confirmation")
    /\ pc' = "action"
    /\ tick' = 1 - tick
    /\ UNCHANGED <<db, index, ephemeral, procs, ranker, call>>

HumanInLoop ==
    /\ pc = "human_in_loop"
    /\ IF state.needs_clarification
       THEN \E a \in human_clarification :
               /\ state' = human_in_loop_node(state, a)
               /\ hist' = [Asked(Ran(hist, "human_in_loop"), "clarification", a)
                              EXCEPT !.nl_text = last_message(state)]
       ELSE /\ state' = state
            /\ hist' = Ran(hist, "human_in_loop")
    /\ pc' = "action"
    /\ tick' = 1 - tick
    /\ UNCHANGED <<db, index, ephemeral, procs, ranker, call>>

Alter ==
    /\ pc = "alter"
    /\ IF alter_guard(state)
       THEN \E o \in AlterOutcomes :
               LET u == IF o.config
                        THEN update_db_and_vector_store(db, ephemeral,
                                 state.alter_command, state.table_name, o)
                        ELSE [db |-> db, collection |-> ephemeral,
                              committed |-> FALSE, closed |-> TRUE,
                              result |-> "raise"]
               IN  /\ state' = alter_node(state, u.result)
                   /\ db' = u.db
                   /\ ephemeral' = u.collection
                   /\ hist' = [Ran(hist, "alter") EXCEPT
                                   !.raised = @ \/ u.result = "raise",
                                   !.conn = IF ~o.config THEN "none"
                                            ELSE IF u.closed THEN "closed"
                                            ELSE "open",
                                   !.alter = [result |-> u.result,
                                              committed |-> u.committed,
                                              table_name |-> state.table_name]]
       ELSE /\ state' = state
            /\ hist' = Ran(hist, "alter")
            /\ UNCHANGED <<db, ephemeral>>
    /\ pc' = "action"
    /\ tick' = 1 - tick
    /\ UNCHANGED <<index, procs, ranker, call>>

Action ==
    /\ pc = "action"
    /\ \E ok \in FetchOutcomes :
        /\ state' = action_node(state, index, ok)
        /\ hist' = [Ran(hist, "action") EXCEPT
                        !.raised = @ \/ ~ok,
                        !.fetch = IF ok THEN "returned" ELSE "raised"]
    /\ pc' = should_continue(state')
    /\ tick' = 1 - tick
    /\ UNCHANGED <<db, index, ephemeral, procs, ranker, call>>

-----------------------------------------------------------------------------
(* The Generation/Verification Loop *)

\* what generate_sql_with_codestral returns
GeneratedSql == {"SELECT A;", "SELECT B;"}

\* sql_query_generator_node: the generator's text, or an exception
\* (init_codestral_client)
GeneratorOutcomes ==
    { [ok |-> TRUE, sql |-> q] : q \in GeneratedSql }
    \cup { [ok |-> FALSE, sql |-> ""] }

\* max_tokens of the request generate_sql_with_codestral sends
GeneratorMaxTokens == 1500

\* the statement cached in cache/sql_<hash(nl_text + schema)>.pkl, "" when
\* there is no such file; memo is the cache directory, the schema of a run
\* is the same in all its generator calls
memoized(memo, nl_text) ==
    IF \E m \in memo : m.nl_text = nl_text
    THEN (CHOOSE m \in memo : m.nl_text = nl_text).sql
    ELSE ""

FencedC == "[fence]sql SELECT C; [fence]"

\* verify_sql_with_deepseek: a verdict dictionary, or an exception.  A key the
\* dictionary does not carry is "absent"; a corrected statement comes only
\* with status corrected.
VerifierOutcomes ==
    { [ok |-> TRUE, status |-> st, corrected_sql |-> "absent"] :
        st \in {"perfect", "corrected", "incomplete", "invalid", "error", "absent"} }
    \cup { [ok |-> TRUE, status |-> "corrected", corrected_sql |-> q] :
             q \in {"SELECT C;", FencedC} }
    \cup { [ok |-> FALSE, status |-> "absent", corrected_sql |-> "absent"] }

\* the store on cursor.execute / fetchall / cursor.description: a row set, a
\* statement without a row set (description is None), or a rejection
ExecOutcomes == {"rows", "no_rowset", "rejected"}

\* utils.llm_client.clean_sql: strips the Markdown fences around a statement
clean_sql(sql) == IF sql = FencedC THEN "SELECT C;" ELSE sql

sql_query_generator_node(s, g) ==
    IF g.ok /\ SchemaTruthy(s.schema)
    THEN [s EXCEPT !.generated_sql = g.sql,
                   !.messages = AppendMsg(@, "Generated SQL")]
    ELSE [s EXCEPT !.generated_sql = "",
                   !.messages = AppendMsg(@, "Error generating SQL")]

\* verification.get("status", "error")
verdict_status(v) == IF v.status = "absent" THEN "error" ELSE v.status

\* verification.get("corrected_sql", generated_sql)
verdict_sql(v, generated_sql) ==
    IF v.corrected_sql = "absent" THEN generated_sql ELSE v.corrected_sql

\* the retry bound off by one
max_retries_exceeded_late(retry_count) == retry_count > MaxRetries + 1

\* the retry bound never reached
max_retries_exceeded_never(retry_count) == FALSE

\* the retry bound of the incomplete branch
max_retries_exceeded(retry_count) == retry_count > MaxRetries

\* a retry that keeps the budget
increased_budget_unchanged(current_max_tokens) == current_max_tokens

\* the budget granted to the next generation
increased_budget(current_max_tokens) == current_max_tokens + TokenIncrement

\* an except branch that records nothing
data_operator_error_silent(s) == [s EXCEPT !.query_results = "empty"]

\* an except branch that also drops what earlier stages recovered
data_operator_error_reset(s) ==
    [s EXCEPT !.query_results = "empty",
              !.schema = EmptySchema,
              !.generated_sql = "",
              !.messages = AppendMsg(@, "Error in data operation")]

\* the except branch of data_operator_node
data_operator_error(s) ==
    [s EXCEPT !.query_results = "empty",
              !.messages = AppendMsg(@, "Error in data operation")]

\* a node that executes on every verdict but incomplete
data_operator_exit_lenient(s, v, x) ==
    IF ~v.ok \/ s.generated_sql = "" THEN "error"
    ELSE IF verdict_status(v) = "incomplete"
    THEN IF max_retries_exceeded(s.retry_count + 1) THEN "max_retries"
         ELSE "retry"
    ELSE IF x = "rows" THEN "executed" ELSE "execution_error"

\* a node that answers a rejected statement with a retry
data_operator_exit_retry_on_reject(s, v, x) ==
    IF ~v.ok \/ s.generated_sql = "" THEN "error"
    ELSE IF verdict_status(v) \in {"perfect", "corrected"}
    THEN IF x = "rows" THEN "executed"
         ELSE IF x = "rejected" THEN "retry" ELSE "execution_error"
    ELSE IF verdict_status(v) = "incomplete"
    THEN IF max_retries_exceeded(s.retry_count + 1) THEN "max_retries"
         ELSE "retry"
    ELSE "verification_failed"

\* how data_operator_node returns for verifier outcome v and store outcome x
data_operator_exit(s, v, x) ==
    IF ~v.ok \/ s.generated_sql = "" THEN "error"
    ELSE IF verdict_status(v) \in {"perfect", "corrected"}
    THEN IF x = "rows" THEN "executed" ELSE "execution_error"
    ELSE IF verdict_status(v) = "incomplete"
    THEN IF max_retries_exceeded(s.retry_count + 1) THEN "max_retries"
         ELSE "retry"
    ELSE "verification_failed"

\* the connection of data_operator_node: opened when the verdict is perfect
\* or corrected, closed after cursor.description was read
data_operator_conn(s, v, x) ==
    IF data_operator_exit(s, v, x) = "executed" THEN "closed"
    ELSE IF data_operator_exit(s, v, x) = "execution_error" THEN "open"
    ELSE "none"

data_operator_node(s, v, x) ==
    LET exit == data_operator_exit(s, v, x)
        corrected_sql == verdict_sql(v, s.generated_sql)
    IN  CASE exit = "executed" ->
               [s EXCEPT !.query_results = "rows",
                         !.messages = AppendMsg(@, "Query executed successfully"),
                         !.final_sql = corrected_sql]
          [] exit = "retry" ->
               [s EXCEPT !.retry_count = @ + 1,
                         !.current_max_tokens = increased_budget(@),
                         !.messages = AppendMsg(@, "Incomplete query detected")]
          [] exit = "max_retries" ->
               data_operator_error([s EXCEPT !.retry_count = @ + 1])
          [] OTHER -> data_operator_error(s)

\* the loop's driver: where the run goes after data_operator_node
loop_route(exit) ==
    CASE exit = "retry" -> "sql_query_generator"
      [] exit \in {"executed", "execution_error"} -> "Done"
      [] OTHER -> "Failed"

\* the pipeline's driver: a resolved request goes on to the SQL Generator
StartGeneration ==
    /\ pc = "END"
    /\ pc' = "sql_query_generator"
    /\ tick' = 1 - tick
    /\ UNCHANGED <<db, index, ephemeral, procs, ranker, call>>
    /\ hist' = Ran(hist, "END")
    /\ UNCHANGED state

\* generate_sql_with_codestral returns the cached statement of nl_text when
\* there is one, else it sends the request and caches what it extracted
SqlQueryGenerator ==
    /\ pc = "sql_query_generator"
    /\ \E g \in GeneratorOutcomes :
        LET nl_text == last_message(state)
            called == g.ok /\ SchemaTruthy(state.schema)
            hit == called /\ memoized(hist.memo, nl_text) # ""
            returned == IF hit
                        THEN [ok |-> TRUE, sql |-> memoized(hist.memo, nl_text)]
                        ELSE g
        IN  /\ state' = sql_query_generator_node(state, returned)
            /\ hist' = [Ran(hist, "sql_query_generator") EXCEPT
                            !.nl_text = IF called THEN nl_text ELSE "none",
                            !.gen_calls = @ + 1,
                            !.memo = IF called /\ ~hit
                                     THEN @ \cup {[nl_text |-> nl_text,
                                                   sql |-> g.sql]}
                                     ELSE @,
                            !.budgets = IF called /\ ~hit
                                        THEN Append(@, GeneratorMaxTokens)
                                        ELSE @,
                            !.raised = @ \/ ~g.ok]
    /\ pc' = "data_operator"
    /\ tick' = 1 - tick
    /\ UNCHANGED <<db, index, ephemeral, procs, ranker, call>>

\* the verifier is consulted unless the node has raised before the call
DataOperator ==
    /\ pc = "data_operator"
    /\ \E v \in VerifierOutcomes, x \in ExecOutcomes :
        LET exit == data_operator_exit(state, v, x)
            consulted == v.ok /\ state.generated_sql # ""
            adopts == consulted /\ verdict_status(v) \in {"perfect", "corrected"}
        IN  /\ state' = data_operator_node(state, v, x)
            /\ hist' = [Ran(hist, "data_operator") EXCEPT
                            !.nl_text = IF consulted
                                        THEN last_message(state) ELSE "none",
                            !.verdicts = IF consulted
                                         THEN Append(@, verdict_status(v))
                                         ELSE @,
                            !.adopted = IF adopts
                                        THEN verdict_sql(v, state.generated_sql)
                                        ELSE @,
                            !.executed_sql =
                                IF adopts
                                THEN clean_sql(verdict_sql(v, state.generated_sql))
                                ELSE @,
                            !.exit = exit,
                            !.conn = data_operator_conn(state, v, x),
                            !.store = IF adopts THEN x ELSE "none",
                            !.raised = @ \/ ~v.ok]
            /\ pc' = loop_route(exit)
    /\ tick' = 1 - tick
    /\ UNCHANGED <<db, index, ephemeral, procs, ranker, call>>

-----------------------------------------------------------------------------
(* utils/llm_client.py and tools/vector_search.py: one call of a capability
   at a time, attempt by attempt.  get_table_name_and_alter and
   generate_sql_with_codestral run under google.api_core's Retry; the
   queries of search_relevant_tables_by_content run under nothing.  Time is
   counted in units of 60 s. *)

\* Retry(initial=60, maximum=600, multiplier=2, deadline=300)
InitialDelay == 1
MaximumDelay == 10
Multiplier == 2
Deadline == 5
\* expected_unions of generate_sql_with_codestral
ExpectedUnions == 8
\* the tables of the database the prompt describes
NumTables == 9

\* the classes a failed attempt can belong to: ResourceExhausted / HTTP 429,
\* DeadlineExceeded / a timeout, ServiceUnavailable / HTTP 503, anything else
Transient == {"rate_limited", "timeout", "service_unavailable"}
FailureClasses == Transient \cup {"other"}

\* the request texts a capability is called with (the keys of its cache)
Requests == {"q1", "q2"}

\* A SQL text is held as the number of UNIONs of its body and the tokens
\* that follow the body.
Sql(unions, tail) == [unions |-> unions, tail |-> tail]
NoSql == Sql(0, <<"none">>)

\* sql_query.endswith(';')
endswith_terminator(sql_query) ==
    sql_query.tail # <<>> /\ sql_query.tail[Len(sql_query.tail)] = ";"

\* how requests.post can end: a statement with or without its ';', a text
\* in a code fence, or a failure (the kind is its class); tables is the
\* number of tables the request spans, a statement has at most one UNION
\* less
GeneratorResponses ==
    { [kind |-> "raw", tables |-> r.n, sql |-> Sql(r.u, t)] :
        r \in { x \in [n : 1..NumTables, u : 0..(NumTables - 1)] : x.u < x.n },
        t \in {<<>>, <<";">>} }
    \cup { [kind |-> "fenced", tables |-> 1, sql |-> Sql(0, <<";">>)] }
    \cup { [kind |-> f, tables |-> 1, sql |-> NoSql] : f \in FailureClasses }

\* predicate of the Retry around get_table_name_and_alter
analyzer_predicate(failure) ==
    failure \in {"rate_limited", "timeout", "service_unavailable"}

\* predicate of the Retry around generate_sql_with_codestral
generator_predicate(failure) ==
    failure \in {"timeout", "service_unavailable"}

\* the text generate_sql_with_codestral returns when its try block raised
ErrorSql == Sql(0, <<"-- Error generating SQL">>)

\* "if not sql_query.endswith(';'): sql_query += ';'"
terminated(sql_query) ==
    IF endswith_terminator(sql_query) THEN sql_query
    ELSE [sql_query EXCEPT !.tail = Append(@, ";")]

\* the truncation heuristic: a statement with fewer UNIONs than expected
\* gets the warning appended
annotated(sql_query) ==
    IF sql_query.unions > 0 /\ sql_query.unions < ExpectedUnions
    THEN [sql_query EXCEPT !.tail = Append(@, "-- Warning: Query incomplete")]
    ELSE sql_query

\* the body of generate_sql_with_codestral after the cache lookup, for the
\* outcome of requests.post: what it returns, whether it raises, whether the
\* value is written to the cache.  A fenced answer matches the pattern that
\* has no group, so sql_match.group(1) raises inside the try block.
generate_sql_with_codestral(outcome) ==
    IF outcome.kind \in FailureClasses
    THEN [raised |-> "none", value |-> ErrorSql, cached |-> FALSE]
    ELSE IF outcome.kind = "fenced"
    THEN [raised |-> "none", value |-> ErrorSql, cached |-> FALSE]
    ELSE [raised |-> "none", value |-> annotated(terminated(outcome.sql)),
          cached |-> TRUE]

\* the body of get_table_name_and_alter after the cache lookup, for the
\* outcome of generate_content: every exception but JSONDecodeError is
\* raised again
analyze(outcome) ==
    IF outcome \in FailureClasses
    THEN [raised |-> outcome, value |-> NoSql, cached |-> FALSE]
    ELSE [raised |-> "none", value |-> Sql(0, <<"analysis">>), cached |-> TRUE]

\* one collection.query of search_relevant_tables_by_content: a failure is
\* logged and the loop continues with the next query
query_collection(outcome) ==
    IF outcome \in FailureClasses
    THEN [raised |-> "none", value |-> Sql(0, <<"skipped">>), cached |-> FALSE]
    ELSE [raised |-> "none", value |-> Sql(0, <<"hits">>), cached |-> FALSE]

next_delay(delay) ==
    IF delay * Multiplier < MaximumDelay THEN delay * Multiplier
    ELSE MaximumDelay

NoCall ==
    [capability |-> "none",   \* the capability called
     pc |-> "idle",           \* idle, calling, returned, raised
     request |-> "none",      \* the request text of the call
     tables |-> 0,            \* the tables the request spans (generator)
     last |-> "none",         \* how the latest attempt ended
     retried |-> <<>>,        \* the failures that were followed by a retry
     elapsed |-> 0,           \* time slept between the attempts
     delay |-> InitialDelay,  \* the next sleep
     result |-> NoSql,        \* the value returned
     error |-> "none",        \* the exception raised to the caller
     analysis_cache |-> {},   \* cache/enhanced_*.pkl
     sql_cache |-> [q \in Requests |-> NoSql]]   \* cache/sql_*.pkl

\* what Retry does with one attempt r of the wrapped function; matches is
\* its predicate applied to the exception raised
retry_target(c, matches, attempt, r) ==
    IF r.raised = "none"
    THEN [c EXCEPT !.pc = "returned", !.last = attempt, !.result = r.value]
    ELSE IF ~matches
    THEN [c EXCEPT !.pc = "raised", !.last = attempt, !.error = r.raised]
    ELSE IF c.elapsed + c.delay > Deadline
    THEN [c EXCEPT !.pc = "raised", !.last = attempt, !.error = "RetryError"]
    ELSE [c EXCEPT !.last = attempt,
                   !.retried = Append(@, r.raised),
                   !.elapsed = @ + c.delay,
                   !.delay = next_delay(@)]

Others9 == <<state, pc, tick, hist, db, index, ephemeral, procs, ranker>>

\* thought_node calls get_table_name_and_alter: a cached analysis is
\* returned without a call
CallAnalyzer ==
    /\ call.pc = "idle"
    /\ \E q \in Requests :
         call' = IF q \in call.analysis_cache
                 THEN [call EXCEPT !.capability = "analyzer", !.request = q,
                                   !.pc = "returned",
                                   !.result = Sql(0, <<"analysis">>)]
                 ELSE [call EXCEPT !.capability = "analyzer", !.request = q,
                                   !.pc = "calling"]
    /\ UNCHANGED Others9

AnalyzerAttempt ==
    /\ call.pc = "calling"
    /\ call.capability = "analyzer"
    /\ \E outcome \in {"ok"} \cup FailureClasses :
         LET r == analyze(outcome)
             c == retry_target(call, analyzer_predicate(r.raised), outcome, r)
         IN  call' = IF r.cached
                     THEN [c EXCEPT !.analysis_cache = @ \cup {call.request}]
                     ELSE c
    /\ UNCHANGED Others9

\* sql_query_generator_node calls generate_sql_with_codestral: a cached
\* statement is returned as it was stored
CallGenerator ==
    /\ call.pc = "idle"
    /\ \E q \in Requests :
         call' = IF call.sql_cache[q] # NoSql
                 THEN [call EXCEPT !.capability = "generator", !.request = q,
                                   !.pc = "returned",
                                   !.result = call.sql_cache[q]]
                 ELSE [call EXCEPT !.capability = "generator", !.request = q,
                                   !.pc = "calling"]
    /\ UNCHANGED Others9

GeneratorAttempt ==
    /\ call.pc = "calling"
    /\ call.capability = "generator"
    /\ \E outcome \in GeneratorResponses :
         LET r == generate_sql_with_codestral(outcome)
             attempt == IF outcome.kind \in FailureClasses THEN outcome.kind
                        ELSE IF outcome.kind = "fenced" THEN "other"
                        ELSE "ok"
             c == retry_target(call, generator_predicate(r.raised), attempt, r)
         IN  call' = IF r.cached
                     THEN [c EXCEPT !.tables = outcome.tables,
                                    !.sql_cache[call.request] = r.value]
                     ELSE c
    /\ UNCHANGED Others9

\* search_relevant_tables_by_content issues one collection.query
CallRankerQuery ==
    /\ call.pc = "idle"
    /\ \E q \in Requests :
         call' = [call EXCEPT !.capability = "ranker_query", !.request = q,
                              !.pc = "calling"]
    /\ UNCHANGED Others9

RankerQueryAttempt ==
    /\ call.pc = "calling"
    /\ call.capability = "ranker_query"
    /\ \E outcome \in {"ok"} \cup FailureClasses :
         LET r == query_collection(outcome)
         IN  call' = [call EXCEPT !.pc = "returned", !.last = outcome,
                                  !.result = r.value]
    /\ UNCHANGED Others9

\* the caller takes the result; the caches stay
CallDone ==
    /\ call.pc \in {"returned", "raised"}
    /\ call' = [NoCall EXCEPT !.analysis_cache = call.analysis_cache,
                              !.sql_cache = call.sql_cache]
    /\ UNCHANGED Others9

CallInit ==
    /\ state = initial_state
    /\ pc = "thought"
    /\ tick = 0
    /\ hist = initial_hist
    /\ db = initial_db
    /\ index = initial_index
    /\ ephemeral = {}
    /\ procs = <<>>
    /\ ranker = NoSearch
    /\ call = NoCall

CallNext ==
    \/ CallAnalyzer
    \/ AnalyzerAttempt
    \/ CallGenerator
    \/ GeneratorAttempt
    \/ CallRankerQuery
    \/ RankerQueryAttempt
    \/ CallDone

CallSpec == CallInit /\ [][CallNext]_vars

-----------------------------------------------------------------------------
(* Concurrent pipeline instances in the Alter Executor: each runs
   update_db_and_vector_store once, one store or collection call per step.
   The instances are threads of one process, so Client() hands them the same
   in-memory collection. *)

Instances == {1, 2}

Returned(instance, result) ==
    [instance EXCEPT !.pc = "returned", !.result = result]

ExecuteAlterCommand(p) ==
    /\ procs[p].pc = "execute_alter_command"
    /\ \E commit \in BOOLEAN :
        LET e == execute_alter_command(db, procs[p].alter_command, commit)
        IN  /\ db' = e.db
            /\ procs' = [procs EXCEPT ![p] =
                            IF e.success
                            THEN [@ EXCEPT !.pc = "collection_get"]
                            ELSE Returned(@, "Failed to execute")]
    /\ UNCHANGED <<state, pc, tick, hist, index, ephemeral, ranker, call>>

CollectionGet(p) ==
    /\ procs[p].pc = "collection_get"
    /\ LET existing_ids == collection_get(ephemeral, procs[p].table_name)
       IN  procs' = [procs EXCEPT ![p] =
                        [@ EXCEPT !.existing_ids = existing_ids,
                                  !.pc = IF Truthy(procs[p].table_name)
                                            /\ existing_ids # {}
                                         THEN "collection_delete"
                                         ELSE "get_table_schemas"]]
    /\ UNCHANGED <<state, pc, tick, hist, db, index, ephemeral, ranker, call>>

CollectionDelete(p) ==
    /\ procs[p].pc = "collection_delete"
    /\ ephemeral' = collection_delete(ephemeral, procs[p].existing_ids)
    /\ procs' = [procs EXCEPT ![p].pc = "get_table_schemas"]
    /\ UNCHANGED <<state, pc, tick, hist, db, index, ranker, call>>

GetTableSchemas(p) ==
    /\ procs[p].pc = "get_table_schemas"
    /\ procs' = [procs EXCEPT ![p] =
                    [@ EXCEPT !.schemas = get_table_schemas(db, procs[p].table_name),
                              !.pc = "collection_add"]]
    /\ UNCHANGED <<state, pc, tick, hist, db, index, ephemeral, ranker, call>>

\* an add of an id the collection holds stores nothing; the call returns or,
\* depending on the chromadb release, raises
CollectionAdd(p) ==
    /\ procs[p].pc = "collection_add"
    /\ LET documents == new_documents(procs[p].schemas)
           duplicate == \E d \in documents, e \in ephemeral : e.id = d.id
       IN  /\ ephemeral' = collection_add(ephemeral, documents)
           /\ \E result \in IF duplicate
                             THEN {"Successfully executed", "raise"}
                             ELSE {"Successfully executed"} :
                  procs' = [procs EXCEPT ![p] = Returned(@, result)]
    /\ UNCHANGED <<state, pc, tick, hist, db, index, ranker, call>>

AlterInit ==
    /\ state = initial_state
    /\ pc = "thought"
    /\ tick = 0
    /\ hist = initial_hist
    /\ db = initial_db
    /\ index = initial_index
    /\ ephemeral = {}
    /\ procs \in [Instances ->
                    { [pc |-> "execute_alter_command",
                       table_name |-> <<DbTables[i]>>,
                       alter_command |-> DbTables[i],
                       existing_ids |-> {},
                       schemas |-> <<>>,
                       result |-> "none"] : i \in 1..Len(DbTables) }]
    /\ ranker = NoSearch
    /\ call = NoCall

AlterNext ==
    \E p \in Instances :
        \/ ExecuteAlterCommand(p)
        \/ CollectionGet(p)
        \/ CollectionDelete(p)
        \/ GetTableSchemas(p)
        \/ CollectionAdd(p)

AlterSpec == AlterInit /\ [][AlterNext]_vars

-----------------------------------------------------------------------------
(* One call of search_relevant_tables_by_content, query by query.  hits is
   the log of everything the collection answered. *)

\* get_collection raises: the outer except returns []
SearchFails ==
    /\ ranker.pc = "query"
    /\ ranker.issued = 0
    /\ ranker' = [ranker EXCEPT !.pc = "returned", !.returned = <<>>]
    /\ UNCHANGED <<state, pc, tick, hist, db, index, ephemeral, procs, call>>

\* one round of the loop over search_queries
SearchQuery ==
    /\ ranker.pc = "query"
    /\ ranker.issued < Len(search_queries(ranker.entities))
    /\ LET query == search_queries(ranker.entities)[ranker.issued + 1]
       IN  \E r \in QueryResults(ranker.top_k) :
               ranker' = [ranker EXCEPT
                   !.issued = @ + 1,
                   !.hits = @ \o [i \in 1..Len(r.hits) |->
                                     [query |-> query,
                                      table_name |-> r.hits[i].table_name,
                                      distance |-> r.hits[i].distance]],
                   !.candidate_tables = merge_hits(@, r.hits, query)]
    /\ UNCHANGED <<state, pc, tick, hist, db, index, ephemeral, procs, call>>

SearchReturn ==
    /\ ranker.pc = "query"
    /\ ranker.issued = Len(search_queries(ranker.entities))
    /\ ranker' = [ranker EXCEPT
                     !.pc = "returned",
                     !.returned = ranked_candidates(ranker.candidate_tables,
                                                    ranker.top_k)]
    /\ UNCHANGED <<state, pc, tick, hist, db, index, ephemeral, procs, call>>

RankerInit ==
    /\ state = initial_state
    /\ pc = "thought"
    /\ tick = 0
    /\ hist = initial_hist
    /\ db = initial_db
    /\ index = initial_index
    /\ ephemeral = {}
    /\ procs = <<>>
    /\ ranker \in { [NoSearch EXCEPT !.pc = "query", !.top_k = k, !.entities = e] :
                       k \in TopKs, e \in SearchEntities }
    /\ call = NoCall

RankerNext == SearchFails \/ SearchQuery \/ SearchReturn

RankerSpec == RankerInit /\ [][RankerNext]_vars

-----------------------------------------------------------------------------
Init ==
    /\ state = initial_state
    /\ pc = "thought"
    /\ tick = 0
    /\ hist = initial_hist
    /\ db = initial_db
    /\ index = initial_index
    /\ ephemeral = {}
    /\ procs = <<>>
    /\ ranker = NoSearch
    /\ call = NoCall

Next ==
    \/ Thought
    \/ SemanticSearch
    \/ HumanTableConfirmation
    \/ HumanInLoop
    \/ Alter
    \/ Action
    \/ StartGeneration
    \/ SqlQueryGenerator
    \/ DataOperator

Spec == Init /\ [][Next]_vars

\* the graph driver runs the next node whenever there is one
FairSpec == Spec /\ WF_vars(Next)

-----------------------------------------------------------------------------
(* Vocabulary of the properties *)

\* the Intent Analyzer returned one table name that has an index document
NamedOneIndexedTable ==
    /\ hist.analysis.ok
    /\ Len(hist.analysis.table_name) = 1
    /\ hist.analysis.table_name[1] \in IndexTables

\* the resolver graph has finished (should_continue returned END)
Resolved == pc \notin ResolverNodes

Incompletes == Cardinality({i \in DOMAIN hist.verdicts : hist.verdicts[i] = "incomplete"})

LastVerdict == IF hist.verdicts = <<>> THEN "none"
               ELSE hist.verdicts[Len(hist.verdicts)]

Min(a, b) == IF a < b THEN a ELSE b

LastMessage == state.messages[Len(state.messages)]

-----------------------------------------------------------------------------
(* C1 *)

\* C1 as stated: a request analysed to one indexed table name reaches Resolved
\* with no ranker call and no human escalation at all.
C1_ZeroEscalations ==
    (NamedOneIndexedTable /\ Resolved)
        => (hist.ranker_calls = 0 /\ hist.escalations = 0)

\* C1 (amended): for a request analysed to one indexed table name T, the first
\* stage after the analysis is the human confirmation prompt offering exactly
\* T, never the ranker; a run that has resolved has been through at least one
\* escalation; and while the human answers with an indexed table and no
\* collaborator raises, there is no ranker call and at most that one
\* escalation.
C1_ConfirmationFirst ==
    NamedOneIndexedTable =>
        /\ hist.escalations = 0 =>
              /\ hist.ranker_calls = 0
              /\ pc = "human_table_confirmation"
              /\ confirmation_prompt(state) =
                    [kind |-> "confirmation",
                     candidates |-> <<Candidate(hist.analysis.table_name, 100)>>]
        /\ Resolved => hist.escalations >= 1
        /\ (~hist.off_script /\ ~hist.raised)
              => (hist.ranker_calls = 0 /\ hist.escalations <= 1)

C1_Witness ==
    /\ NamedOneIndexedTable
    /\ pc = "END"
    /\ hist.escalations = 1
    /\ hist.ranker_calls = 0
    /\ ~hist.off_script
    /\ ~hist.raised

-----------------------------------------------------------------------------
(* C2 *)

\* C2 as stated: once the human has cancelled a confirmation prompt the run
\* is over: no node runs after the cancellation (so no schema is fetched for
\* the guessed table) and the run does not go on to resolve or generate.
\* Stated for the runs in which no collaborator call raises.
C2_CancelIsTerminal ==
    (hist.cancelled /\ ~hist.raised)
        => (~hist.ran_after_cancel /\ pc \notin {"END", "Done"})

-----------------------------------------------------------------------------
(* C3 *)

\* C3 as stated: after a semantic search that found no candidate for a
\* non-empty entity list (no collaborator having raised and no prompt having
\* been cancelled before), a prompt is put to the human next (the direct
\* clarification, says the claim; the formula asks only that a prompt comes).
C3_EmptySearchFallsBack ==
    (hist.empty_search /\ ~hist.off_script /\ ~hist.raised)
        ~> ~hist.empty_search

-----------------------------------------------------------------------------
(* C4 *)

\* C4 as stated: every run of the resolver graph in which the human answers
\* each prompt with an indexed table and every collaborator call returns
\* eventually leaves the resolver graph.
C4_ResolverTerminates == <>(Resolved \/ hist.off_script \/ hist.raised)

-----------------------------------------------------------------------------
(* C5 *)

\* C5: after thought, semantic_search and action the next node is the one the
\* first matching rule of the fixed order names; a request analysed as
\* UNCERTAIN with no entities goes from thought to human_in_loop and never
\* reaches the ranker.
C5_RoutingPriority ==
    /\ hist.last_node \in {"thought", "semantic_search", "action"} =>
        /\ (state.needs_clarification /\ state.extracted_entities # <<>>)
              => pc = "semantic_search"
        /\ (state.needs_clarification /\ state.extracted_entities = <<>>)
              => pc = "human_in_loop"
        /\ (~state.needs_clarification /\ state.needs_table_confirmation)
              => pc = "human_table_confirmation"
        /\ (~state.needs_clarification /\ ~state.needs_table_confirmation
              /\ state.is_alter)
              => pc = "alter"
        /\ (~state.needs_clarification /\ ~state.needs_table_confirmation
              /\ ~state.is_alter /\ SchemaTruthy(state.schema))
              => pc = "END"
        /\ (~state.needs_clarification /\ ~state.needs_table_confirmation
              /\ ~state.is_alter /\ ~SchemaTruthy(state.schema))
              => pc = "action"
    /\ (hist.analysis.ok /\ hist.analysis.table_name = UNCERTAIN
          /\ hist.analysis.extracted_entities = <<>>) =>
        /\ hist.ranker_calls = 0
        /\ pc # "semantic_search"
        /\ hist.last_node = "thought" => pc = "human_in_loop"

C5_Witness ==
    /\ hist.last_node = "thought"
    /\ hist.analysis.ok
    /\ hist.analysis.table_name = UNCERTAIN
    /\ hist.analysis.extracted_entities = <<>>
    /\ pc = "human_in_loop"

-----------------------------------------------------------------------------
(* C6 *)

\* C6: the SQL Generator runs at most max_retries + 1 times (one generation
\* and at most two retries), and a third incomplete verdict ends the loop in
\* Failed on the max-retries error.
C6_RetriesBounded ==
    /\ hist.gen_calls <= MaxRetries + 1
    /\ Incompletes <= MaxRetries + 1
    /\ Incompletes = MaxRetries + 1 => (pc = "Failed" /\ hist.exit = "max_retries")
    /\ pc = "sql_query_generator" => hist.gen_calls = Incompletes

C6_Witness ==
    /\ Incompletes = 3
    /\ hist.gen_calls = 3
    /\ pc = "Failed"

-----------------------------------------------------------------------------
(* C7 *)

\* C7 as stated: retry_count <= max_retries in every reachable state.
C7_RetryCountBound == state.retry_count <= MaxRetries

\* C7 (amended): retry_count counts the incomplete verdicts and is at most
\* max_retries + 1; it exceeds max_retries only in the Failed state the third
\* incomplete verdict ends in.
C7_RetryCountBoundAmended ==
    /\ state.retry_count = Incompletes
    /\ state.retry_count <= MaxRetries + 1
    /\ state.retry_count > MaxRetries => (pc = "Failed" /\ hist.exit = "max_retries")

C7_Witness == state.retry_count = MaxRetries + 1 /\ pc = "Failed"

-----------------------------------------------------------------------------
(* C8 *)

\* C8 as stated: after k incomplete verdicts the budget is
\* initial_budget + k * increment.
C8_BudgetFormula ==
    state.current_max_tokens = InitialBudget + Incompletes * TokenIncrement

\* C8 (amended): after k incomplete verdicts the budget is
\* initial_budget + min(k, max_retries) * increment; an incomplete verdict
\* that leads to a retry raises it by the increment, the third one leaves it
\* as it is, and no step lowers it.
C8_BudgetFormulaAmended ==
    /\ [](state.current_max_tokens =
              InitialBudget + Min(Incompletes, MaxRetries) * TokenIncrement)
    /\ [][ /\ state'.current_max_tokens >= state.current_max_tokens
           /\ (pc = "data_operator" /\ pc' = "sql_query_generator")
                 => state'.current_max_tokens =
                       state.current_max_tokens + TokenIncrement ]_vars

C8_Witness ==
    /\ Incompletes = 3
    /\ state.current_max_tokens = InitialBudget + 2 * TokenIncrement

-----------------------------------------------------------------------------
(* C9 *)

\* C9 as stated: on the verdicts incomplete, incomplete, perfect there have
\* been exactly two retries, final_sql is the third generation's output and
\* the budget is initial + 2 * increment.  Stated for the runs in which the
\* human names an indexed table and no collaborator call raises.
C9_ScenarioB ==
    (hist.verdicts = <<"incomplete", "incomplete", "perfect">>
        /\ ~hist.off_script /\ ~hist.raised) =>
        /\ state.retry_count = 2
        /\ hist.gen_calls = 3
        /\ state.final_sql = state.generated_sql
        /\ state.current_max_tokens = InitialBudget + 2 * TokenIncrement

-----------------------------------------------------------------------------
(* C10 *)

\* C10 as stated: once the verifier has answered perfect or corrected,
\* final_sql is the adopted statement (the generated SQL on perfect, the
\* verifier's corrected_sql on corrected) and that statement went to the
\* store.  Stated for the runs in which the human names an indexed table and
\* no collaborator call raises.
C10_AdoptedIsFinal ==
    (hist.last_node = "data_operator" /\ LastVerdict \in {"perfect", "corrected"}
        /\ ~hist.off_script /\ ~hist.raised) =>
        /\ state.final_sql = hist.adopted
        /\ LastVerdict = "perfect" => hist.adopted = state.generated_sql
        /\ hist.executed_sql = clean_sql(hist.adopted)

-----------------------------------------------------------------------------
(* C11 *)

\* C11: final_sql is set only on a perfect or corrected verdict: whenever
\* final_sql is non-empty the latest verdict was perfect or corrected and
\* final_sql is the statement that verdict adopted, and only a run of
\* data_operator_node on such a verdict changes final_sql.
C11_FinalSqlOnlyOnAdoption ==
    /\ [](state.final_sql # "" =>
            /\ LastVerdict \in {"perfect", "corrected"}
            /\ state.final_sql = hist.adopted)
    /\ [][state'.final_sql # state.final_sql =>
            /\ pc = "data_operator"
            /\ Len(hist'.verdicts) = Len(hist.verdicts) + 1
            /\ hist'.verdicts[Len(hist'.verdicts)] \in {"perfect", "corrected"}]_vars

C11_Witness ==
    /\ state.final_sql = "SELECT C;"
    /\ LastVerdict = "corrected"

-----------------------------------------------------------------------------
(* C12 *)

\* C12: a verdict of invalid or error (a verdict without status counts as
\* error) takes the loop from data_operator straight to Failed: nothing is
\* handed to the store, final_sql stays unset, retry_count, the budget and
\* the number of generations are unchanged, query_results is empty and the
\* failure is the latest message; Failed is left by no step.
C12_VerificationFailureFails ==
    /\ [][(pc = "data_operator" /\ hist'.exit = "verification_failed") =>
            /\ hist'.verdicts[Len(hist'.verdicts)] \in {"invalid", "error"}
            /\ pc' = "Failed"
            /\ hist'.store = "none"
            /\ hist'.executed_sql = hist.executed_sql
            /\ state'.final_sql = ""
            /\ state'.retry_count = state.retry_count
            /\ state'.current_max_tokens = state.current_max_tokens
            /\ hist'.gen_calls = hist.gen_calls
            /\ state'.query_results = "empty"
            /\ state'.messages[Len(state'.messages)] = "Error in data operation"]_vars
    /\ [](LastVerdict \in {"invalid", "error"} =>
            (pc = "Failed" /\ hist.exit = "verification_failed"))
    /\ [][pc # "Failed"]_vars

C12_Witness ==
    /\ pc = "Failed"
    /\ LastVerdict = "invalid"
    /\ hist.verdicts = <<"incomplete", "invalid">>
    /\ state.retry_count = 1
    /\ LastMessage = "Error in data operation"

-----------------------------------------------------------------------------
(* C13 *)

\* C13: when the store rejects the adopted statement the loop goes from
\* data_operator to Done with empty query_results and the error as the latest
\* message; retry_count, the budget and the number of generations are
\* unchanged, and Done is left by no step (no second execution, no new
\* generation).
C13_RejectionEndsLoop ==
    /\ [][(pc = "data_operator" /\ hist'.store = "rejected") =>
            /\ pc' = "Done"
            /\ state'.query_results = "empty"
            /\ state'.messages[Len(state'.messages)] = "Error in data operation"
            /\ state'.retry_count = state.retry_count
            /\ state'.current_max_tokens = state.current_max_tokens
            /\ hist'.gen_calls = hist.gen_calls]_vars
    /\ [][pc # "Done"]_vars

C13_Witness ==
    /\ pc = "Done"
    /\ hist.store = "rejected"
    /\ state.query_results = "empty"
    /\ LastMessage = "Error in data operation"

-----------------------------------------------------------------------------
(* C14 *)

\* the latest run of the alter statement committed and refreshed for the one
\* table T the statement names, and no collaborator call has raised
AlteredTable ==
    /\ hist.alter.result = "Successfully executed"
    /\ hist.alter.table_name = state.table_name
    /\ state.table_name = <<state.alter_command>>
    /\ ~hist.raised

\* C14 as stated: after update_db_and_vector_store has committed an alter on
\* T, the schema the pipeline fetches next for T is the regenerated
\* post-alter text, and the collection the pipeline reads holds exactly one
\* document tagged T, with that text.
C14_FetchSeesAlteredSchema ==
    (AlteredTable /\ hist.last_node = "action") =>
        LET T == state.alter_command
            tagged == {d \in index : d.table_name = T}
        IN  /\ state.schema.docs =
                  <<[table |-> T, found |-> TRUE, version |-> db[T]]>>
            /\ Cardinality(tagged) = 1
            /\ \A d \in tagged : d.text = SchemaText(T, db[T])

-----------------------------------------------------------------------------
(* C15 *)

\* C15: a run of the alter statement that fails to commit changes neither
\* collection (no delete, no add) nor the store, and the failure result is
\* what alter_node records.
C15_FailedCommitLeavesIndex ==
    [][(pc = "alter" /\ alter_guard(state)
          /\ hist'.alter.result = "Failed to execute") =>
            /\ index' = index
            /\ ephemeral' = ephemeral
            /\ db' = db
            /\ state'.messages[Len(state'.messages)] = "Failed to execute"]_vars

C15_Witness ==
    /\ hist.last_node = "alter"
    /\ hist.alter.result = "Failed to execute"
    /\ ephemeral # {}
    /\ LastMessage = "Failed to execute"

-----------------------------------------------------------------------------
(* C16 *)

\* the documents of a collection tagged with a table other than T
Others(collection, T) == {d \in collection : <<d.table_name>> # T}

\* C16: every step of an instance altering T leaves the documents tagged
\* with a table other than T as they are, ids and text, in the collection it
\* refreshes and in the persisted one.
C16_OtherTablesUntouched ==
    [][\A p \in Instances :
          procs'[p] # procs[p] =>
              /\ Others(ephemeral', procs[p].table_name)
                    = Others(ephemeral, procs[p].table_name)
              /\ Others(index', procs[p].table_name)
                    = Others(index, procs[p].table_name)]_vars

\* both instances have refreshed, for different tables, and the collection
\* holds the regenerated document of each
C16_Witness ==
    /\ \A p \in Instances : procs[p].result = "Successfully executed"
    /\ procs[1].table_name # procs[2].table_name
    /\ \A p \in Instances :
          \E d \in ephemeral :
              /\ <<d.table_name>> = procs[p].table_name
              /\ d.text = SchemaText(d.table_name, db[d.table_name])

-----------------------------------------------------------------------------
(* C17 *)

\* C17 as stated: what alter_node records for an alter that committed and
\* whose refresh failed is recorded for no other outcome: not for a
\* successful alter and not for one that did not commit.  Stated for the
\* requests analysed to one indexed table that the human confirms.
C17_RefreshFailureDistinct ==
    (hist.last_node = "alter" /\ alter_guard(state)
        /\ NamedOneIndexedTable /\ ~hist.off_script) =>
        /\ (hist.alter.committed /\ hist.alter.result = "raise")
              => LastMessage \notin {"Successfully executed", "Failed to execute"}
        /\ LastMessage = "Failed to alter table"
              => (hist.alter.committed /\ hist.alter.result = "raise")

-----------------------------------------------------------------------------
(* C18 *)

\* C18 as stated: once two instances that altered the same table T have both
\* committed and returned from their refresh, the collection holds exactly
\* one document tagged T and its text is the schema after both alters.
C18_RefreshesSerialize ==
    (/\ \A p \in Instances : procs[p].result = "Successfully executed"
     /\ procs[1].table_name = procs[2].table_name) =>
        LET T == procs[1].alter_command
            tagged == {d \in ephemeral : d.table_name = T}
        IN  /\ Cardinality(tagged) = 1
            /\ \A d \in tagged : d.text = SchemaText(T, db[T])

-----------------------------------------------------------------------------
(* C19 *)

\* the confidences of all hits the collection reported for table t
HitConfidences(t) ==
    {confidence(ranker.hits[i].distance) :
        i \in {j \in 1..Len(ranker.hits) : ranker.hits[j].table_name = t}}

\* the queries whose hit for table t has confidence c
QueriesGiving(t, c) ==
    {ranker.hits[i].query :
        i \in {j \in 1..Len(ranker.hits) :
                  /\ ranker.hits[j].table_name = t
                  /\ confidence(ranker.hits[j].distance) = c}}

\* C19: in the returned list no table_name occurs twice, each entry's
\* confidence is the maximum of max(0, 1 - distance) over all hits reported
\* for its table by all queries, and its reason names a query that gave that
\* maximum.
C19_MergeKeepsMaximum ==
    ranker.pc = "returned" =>
        \A i \in 1..Len(ranker.returned) :
            LET entry == ranker.returned[i]
            IN  /\ \A j \in 1..Len(ranker.returned) :
                      ranker.returned[j].table_name = entry.table_name => j = i
                /\ entry.confidence_score \in HitConfidences(entry.table_name)
                /\ \A c \in HitConfidences(entry.table_name) :
                      c <= entry.confidence_score
                /\ entry.reason.query
                      \in QueriesGiving(entry.table_name, entry.confidence_score)

\* distances 0.4 and then 0.1 for one table, from two queries, give 0.9
C19_Witness ==
    /\ ranker.pc = "returned"
    /\ \E i \in 1..Len(ranker.returned) :
          /\ ranker.returned[i].confidence_score = 90
          /\ HitConfidences(ranker.returned[i].table_name) = {60, 90}
          /\ ranker.returned[i].reason.text = "Found relevant content for query"

-----------------------------------------------------------------------------
(* C20 *)

\* C20 as stated: each entry of the returned list has a strictly greater
\* confidence than the entry after it.
C20_StrictlyDescending ==
    ranker.pc = "returned" =>
        \A i \in 1..(Len(ranker.returned) - 1) :
            ranker.returned[i].confidence_score
                > ranker.returned[i + 1].confidence_score

\* C20 (amended): each entry of the returned list has a confidence greater
\* than or equal to that of the entry after it; entries of equal confidence
\* stand in the order in which their tables were first reported.
C20_Descending ==
    ranker.pc = "returned" =>
        \A i \in 1..(Len(ranker.returned) - 1) :
            LET a == ranker.returned[i]
                b == ranker.returned[i + 1]
                seen(t) == CHOOSE k \in 1..Len(ranker.hits) :
                              /\ ranker.hits[k].table_name = t
                              /\ \A m \in 1..(k - 1) : ranker.hits[m].table_name # t
            IN  /\ a.confidence_score >= b.confidence_score
                /\ a.confidence_score = b.confidence_score
                      => seen(a.table_name) < seen(b.table_name)

C20_Witness ==
    /\ ranker.pc = "returned"
    /\ Len(ranker.returned) = 2
    /\ ranker.returned[1].confidence_score = ranker.returned[2].confidence_score
    /\ ranker.hits[1].table_name = ranker.returned[1].table_name
    /\ ranker.hits[1].distance = 40

-----------------------------------------------------------------------------
(* C21 *)

\* the tables the collection reported, and the best confidence of each
HitTables == {ranker.hits[i].table_name : i \in 1..Len(ranker.hits)}

BestConfidence(t) ==
    CHOOSE c \in HitConfidences(t) : \A d \in HitConfidences(t) : d <= c

ReturnedTables ==
    {ranker.returned[i].table_name : i \in 1..Len(ranker.returned)}

\* C21: every returned candidate has a confidence above 0.2 and at most 1,
\* the list has at most top_k entries, and a merged table above the
\* threshold is left out only when the list is full and holds no entry of
\* lower confidence.
C21_ThresholdAndTopK ==
    ranker.pc = "returned" =>
        /\ \A i \in 1..Len(ranker.returned) :
              /\ ranker.returned[i].confidence_score > Threshold
              /\ ranker.returned[i].confidence_score <= Unit
        /\ Len(ranker.returned) <= ranker.top_k
        /\ ReturnedTables \subseteq HitTables
        /\ \A t \in HitTables \ ReturnedTables :
              BestConfidence(t) > Threshold =>
                  /\ Len(ranker.returned) = ranker.top_k
                  /\ \A i \in 1..Len(ranker.returned) :
                        ranker.returned[i].confidence_score >= BestConfidence(t)

\* top_k = 1 cuts a list of two tables above the threshold, the better one
\* reported second; the entry kept has confidence 1
C21_Witness ==
    /\ ranker.pc = "returned"
    /\ ranker.top_k = 1
    /\ Len(ranker.returned) = 1
    /\ Len(ranker.candidate_tables) = 2
    /\ ranker.candidate_tables[1].confidence_score > Threshold
    /\ ranker.candidate_tables[2].confidence_score = Unit
    /\ ranker.returned[1] = ranker.candidate_tables[2]

-----------------------------------------------------------------------------
(* C22 *)

\* the segments of the schema text that the latest fetch returned
FetchedDocs == state.schema.docs

\* C22: when search_table_schema has returned for the reference t1,...,tn,
\* the schema holds exactly n segments, the i-th is the segment of ti, and
\* for every ti that has a document in the index it is that document.
C22_OneSegmentPerEntryInOrder ==
    hist.fetch = "returned" =>
        /\ Len(FetchedDocs) = Len(state.table_name)
        /\ \A i \in 1..Len(FetchedDocs) :
              /\ FetchedDocs[i].table = state.table_name[i]
              /\ \A d \in index :
                    d.table_name = state.table_name[i] =>
                        /\ FetchedDocs[i].found
                        /\ FetchedDocs[i].version = d.text.version

\* the fetch has returned for the reference "Orders,Users"
C22_Witness ==
    /\ hist.fetch = "returned"
    /\ state.table_name = <<"Orders", "Users">>
    /\ Len(FetchedDocs) = 2
    /\ FetchedDocs[2].table = "Users"
    /\ FetchedDocs[2].found

-----------------------------------------------------------------------------
(* C23 *)

\* C23: the text a stage takes as nl_text and hands to its capability is the
\* original request text (the HumanMessage), also after earlier stages have
\* appended system messages; stated for the runs in which no collaborator
\* raised and the human named an indexed table.
C23_NlTextIsOriginal ==
    (~hist.raised /\ ~hist.off_script) =>
        hist.nl_text \in {"none", "HumanMessage"}

-----------------------------------------------------------------------------
(* C24 *)

\* C24: whenever search_table_schema has run, table_name is non-empty and
\* is not the UNCERTAIN placeholder; stated for the runs in which no
\* collaborator raised.
C24_FetchOnResolvedReference ==
    (hist.fetch = "returned" /\ ~hist.raised) =>
        /\ Truthy(state.table_name)
        /\ state.table_name # UNCERTAIN

-----------------------------------------------------------------------------
(* C25 *)

\* the analysis that a response left which could not be parsed as JSON:
\* text without a JSON object, or text with braces that json.loads rejects
Malformed == hist.analysis.response \in {"no_json", "broken_json"}

\* the safe default of the analysis
SafeDefault ==
    /\ state.table_name = UNCERTAIN
    /\ state.extracted_entities = <<>>
    /\ state.sql_command_type = "SELECT"
    /\ ~state.is_alter
    /\ state.alter_command = ""

\* C25: when the analyzer's output cannot be parsed as JSON, thought_node
\* leaves the safe default (UNCERTAIN, no entities, SELECT, no alter) in the
\* state and no error is raised.
C25_MalformedDegradesToDefault ==
    (hist.last_node = "thought" /\ Malformed) =>
        /\ SafeDefault
        /\ hist.analysis.ok

-----------------------------------------------------------------------------
(* C26 *)

\* init_gemini_client (or load_config) raised in thought_node of this run
BadConfiguration == hist.analysis.response = "config_error"

\* C26: in a run with a missing or invalid credential no stage executes: the
\* human is not asked, the schema is not fetched, no SQL is generated or
\* verified.
C26_BadCredentialStopsRun ==
    BadConfiguration =>
        /\ hist.escalations = 0
        /\ hist.fetch = "none"
        /\ hist.gen_calls = 0
        /\ hist.verdicts = <<>>

-----------------------------------------------------------------------------
(* C27 *)

\* the context holds the entry that semantic_search_node writes for a
\* failed search
SearchFailureRecorded ==
    \E i \in 1..Len(state.messages) :
        state.messages[i] = "Error searching for relevant tables"

\* C27: when search_relevant_tables_by_content has caught a failure (of one
\* query, or of the whole search) instead of raising it, the context holds
\* an entry describing the failure when semantic_search_node returns.
C27_CaughtFailureIsRecorded ==
    hist.caught => SearchFailureRecorded

-----------------------------------------------------------------------------
(* C29 *)

\* C29: the step of data_operator_node that fails with "Max retries
\* exceeded" leaves table_name, extracted_entities, sql_command_type, schema
\* and generated_sql as the earlier stages set them.
C29_MaxRetriesKeepsContext ==
    [][ (pc = "data_operator" /\ hist'.exit = "max_retries") =>
            /\ state'.table_name = state.table_name
            /\ state'.extracted_entities = state.extracted_entities
            /\ state'.sql_command_type = state.sql_command_type
            /\ state'.schema = state.schema
            /\ state'.generated_sql = state.generated_sql ]_vars

\* the loop has failed with MaxRetriesExceeded and the state returned holds
\* the table, the entities, the schema and the last generated statement
C29_Witness ==
    /\ hist.exit = "max_retries"
    /\ pc = "Failed"
    /\ state.retry_count > MaxRetries
    /\ state.table_name = <<"Orders">>
    /\ state.extracted_entities # <<>>
    /\ SchemaTruthy(state.schema)
    /\ state.generated_sql \in GeneratedSql

-----------------------------------------------------------------------------
(* C28 *)

\* C28: a capability call retries after transient failures only, and a call
\* whose latest attempt failed does not return normally: a failure of
\* another class, or a transient failure with the retries used up, reaches
\* the caller as an exception.
C28_RetryTransientElsePropagate ==
    /\ \A i \in 1..Len(call.retried) : call.retried[i] \in Transient
    /\ call.pc = "returned" => call.last \notin FailureClasses
    /\ (call.pc = "raised" /\ call.last \in Transient) =>
            call.elapsed + call.delay > Deadline

-----------------------------------------------------------------------------
(* C30 *)

\* C30: every value generate_sql_with_codestral returns ends with ';'.
C30_GeneratedSqlIsTerminated ==
    (call.capability = "generator" /\ call.pc = "returned") =>
        endswith_terminator(call.result)

-----------------------------------------------------------------------------
(* C31 *)

\* C31: when sql_query_generator_node has generated again after an
\* incomplete verdict, the capability was invoked once per attempt, each
\* time with a larger allowance than before, the latest being
\* current_max_tokens; stated for the runs in which no collaborator raised.
C31_RetryUsesIncreasedBudget ==
    (/\ hist.last_node = "sql_query_generator"
     /\ state.retry_count > 0
     /\ ~hist.raised) =>
        /\ Len(hist.budgets) = state.retry_count + 1
        /\ \A i, j \in 1..Len(hist.budgets) :
              i < j => hist.budgets[i] < hist.budgets[j]
        /\ hist.budgets[Len(hist.budgets)] = state.current_max_tokens

-----------------------------------------------------------------------------
(* C32 *)

\* the statement carries the truncation marker
Marked(sql_query) ==
    \E i \in 1..Len(sql_query.tail) :
        sql_query.tail[i] = "-- Warning: Query incomplete"

\* C32: a freshly generated statement for a request over N tables carries
\* the truncation marker exactly when it has fewer than N - 1 UNIONs.
C32_MarkedIffFewerUnions ==
    (call.capability = "generator" /\ call.pc = "returned" /\ call.last = "ok") =>
        (Marked(call.result) <=> call.result.unions + 1 < call.tables)

-----------------------------------------------------------------------------
(* C33 *)

\* C33: within one request alter_node calls update_db_and_vector_store at
\* most once: once the statement has been executed and committed, no step
\* of alter_node executes it again.
C33_AlterAtMostOnce ==
    [][ (pc = "alter" /\ hist.alter.committed) => hist'.conn = "none" ]_vars

-----------------------------------------------------------------------------
(* C34 *)

\* the reference names a table that has no document in the index
NamesUnindexedTable ==
    \E i \in 1..Len(state.table_name) : state.table_name[i] \notin IndexTables

\* C34: when the fetch has returned for a reference with a table that has
\* no document in the index, action_node has left the schema empty, set
\* needs_clarification and recorded "No schema found".
C34_MissingDocumentIsAbsent ==
    (hist.fetch = "returned" /\ NamesUnindexedTable /\ ~hist.raised) =>
        /\ ~SchemaTruthy(state.schema)
        /\ state.needs_clarification
        /\ LastMessage = "No schema found for table"

-----------------------------------------------------------------------------
(* C35 *)

\* C35: needs_clarification and needs_table_confirmation are never both
\* true.
C35_FlagsExclusive ==
    ~(state.needs_clarification /\ state.needs_table_confirmation)

-----------------------------------------------------------------------------
(* C36 *)

\* C36: when the verdict was perfect or corrected and the store accepted a
\* statement that returns no row set, data_operator_node has recorded no
\* error and final_sql is the adopted statement; stated for the runs in
\* which no collaborator raised and the human named an indexed table.
C36_NoRowSetStatementAdopted ==
    (/\ hist.last_node = "data_operator"
     /\ hist.store = "no_rowset"
     /\ ~hist.raised /\ ~hist.off_script) =>
        /\ LastMessage # "Error in data operation"
        /\ state.final_sql = hist.adopted

-----------------------------------------------------------------------------
(* C37 *)

\* C37: a node that opened a store connection has closed it when it
\* returns; stated for the runs in which no collaborator raised and the
\* human named an indexed table.
C37_ConnectionsClosed ==
    (~hist.raised /\ ~hist.off_script) => hist.conn # "open"

=============================================================================
